---- MODULE Spec2Model ----
(***************************************************************************)
(* Admin query service (src/services/admin.service.ts): three paginated    *)
(* list queries over the users, posts and reports tables, the report       *)
(* status update and the post status stub.  The database is modelled by    *)
(* the three tables and by the query semantics the service relies on       *)
(* (filters, ORDER BY created_at DESC, inclusive row range, exact count,   *)
(* single-statement UPDATE ... WHERE id = x).                              *)
(***************************************************************************)
EXTENDS Integers, Sequences, FiniteSets, TLC

VARIABLES users, posts, reports, now, call, result, inflight, applyLog

vars == <<users, posts, reports, now, call, result, inflight, applyLog>>

(* ------------------------------ bounds --------------------------------- *)
NUsers == 3
NPosts == 2
MaxClock == 2
MaxPage == 2
MaxLimit == 2

(* ------------------------- values and parameters ----------------------- *)
Null == 0
Undefined == 0 - 1
NoString == "undefined"
NoSearch == <<"undefined">>

DefaultPage == 1
DefaultLimit == 10

UserIds == 1..NUsers
PostIds == 1..NPosts
ReportIds == {1, 2}
AdminIds == {1, 2}
Stamps == {1, 2}

ReportStatuses == {"pending", "processing", "resolved", "dismissed"}
PostStatuses == {"pending", "approved", "rejected", "needs_revision"}

\* identifiers a caller may pass: every existing row and one id of no row
ReportIdArgs == ReportIds \cup {3}
PostIdArgs == 1..(NPosts + 1)

PageArgs == {Undefined} \cup (1..MaxPage)
LimitArgs == {Undefined} \cup (1..MaxLimit)
SearchArgs == {NoSearch, <<>>, <<"a", "n">>}
RoleArgs == {NoString, "admin"}
TierArgs == {NoString, "pro"}
StatusArgs == {NoString, "pending", "resolved"}

Min(a, b) == IF a < b THEN a ELSE b

\* destructuring default: `page = 1`, `limit = 10` apply to undefined only
OrDefault(v, d) == IF v = Undefined THEN d ELSE v

\* JavaScript truthiness of an optional string parameter
TruthySearch(s) == s # NoSearch /\ s # <<>>
TruthyString(s) == s # NoString /\ s # ""

(* ------------------------------ the tables ----------------------------- *)
\* contents of the rows of the users table, by id
NicknameOf(id) == IF id % 4 \in {0, 1} THEN <<"A", "n">> ELSE <<"b">>
EmailOf(id) == IF id % 4 \in {0, 2} THEN <<"b", "a", "N">> ELSE <<"b">>
RoleOf(id) == IF id % 4 \in {1, 2} THEN "admin" ELSE "user"
TierOf(id) == IF id % 4 = 2 THEN "free" ELSE "pro"

UserRow(id, created) ==
  [nickname |-> NicknameOf(id), email |-> EmailOf(id), role |-> RoleOf(id),
   tier |-> TierOf(id), created_at |-> created]

\* a post's owner; the last post refers to a user that cannot be resolved
PostRow(id, created) ==
  [status |-> "pending", user_id |-> IF id = NPosts THEN NUsers + 1 ELSE 1,
   created_at |-> created]

ReportRow(status, resolver, resolvedAt, created, post) ==
  [status |-> status, resolver_admin_id |-> resolver, resolved_at |-> resolvedAt,
   created_at |-> created, post_id |-> post]

NoRow == ReportRow("none", Null, Null, Null, Null)

NoCall == [op |-> "none"]
NoResult == [threw |-> FALSE, message |-> "", rows |-> <<>>, count |-> 0, success |-> FALSE]

(* --------------------------- query semantics --------------------------- *)
Lower(c) == IF c = "A" THEN "a" ELSE IF c = "B" THEN "b" ELSE IF c = "N" THEN "n" ELSE c

\* ILIKE: % matches any run of characters, _ any one character, letters
\* match regardless of case
RECURSIVE ILike(_, _)
ILike(s, p) ==
  IF p = <<>> THEN s = <<>>
  ELSE IF Head(p) = "%"
       THEN ILike(s, Tail(p)) \/ (s # <<>> /\ ILike(Tail(s), p))
       ELSE /\ s # <<>>
            /\ (Head(p) = "_" \/ Lower(Head(s)) = Lower(Head(p)))
            /\ ILike(Tail(s), Tail(p))

\* the filters the three list functions put on their query
OrIlike(search) ==
  [op |-> "or_ilike", col |-> <<"nickname", "email">>, val |-> <<"%">> \o search \o <<"%">>]
Eq(col, val) == [op |-> "eq", col |-> <<col>>, val |-> val]
InnerUsers == [op |-> "inner", col |-> <<"user_id">>, val |-> "users"]

RowMatches(row, f) ==
  IF f.op = "eq" THEN row[f.col[1]] = f.val
  ELSE IF f.op = "inner" THEN row[f.col[1]] \in DOMAIN users
  ELSE \E i \in 1..Len(f.col) : ILike(row[f.col[i]], f.val)

Matching(table, filters) ==
  {id \in DOMAIN table : \A i \in 1..Len(filters) : RowMatches(table[id], filters[i])}

\* every order ORDER BY created_at DESC may produce: rows of equal
\* created_at come in an order the database chooses per query
Orders(table, S) ==
  {s \in [1..Cardinality(S) -> S] :
     /\ \A i, j \in 1..Cardinality(S) : i # j => s[i] # s[j]
     /\ \A i, j \in 1..Cardinality(S) :
          i < j => table[s[i]].created_at >= table[s[j]].created_at}

\* .range(from, to): rows from..to of the ordered result, zero-indexed, inclusive
Range(s, from, to) ==
  IF from >= Len(s) \/ to < from THEN <<>> ELSE SubSeq(s, from + 1, Min(to + 1, Len(s)))

\* mutant: the page number taken as zero-indexed
RangeStartZeroIndexed(page, limit) == page * limit

RangeStart(page, limit) == (page - 1) * limit
RangeEnd(start, limit) == start + limit - 1

Thrown(msg) == [threw |-> TRUE, message |-> msg, rows |-> <<>>, count |-> 0, success |-> FALSE]
Listed(rows, count) ==
  [threw |-> FALSE, message |-> "", rows |-> rows, count |-> count, success |-> FALSE]
Succeeded == [threw |-> FALSE, message |-> "", rows |-> <<>>, count |-> 0, success |-> TRUE]

\* mutant: the error is dropped and the default result returned
ListOutcomeSwallowed(dbError, rows, count, failMsg) == Listed(rows, count)

\* if (error) throw new Error(`Failed to fetch ...`); return {rows, count}
ListOutcome(dbError, rows, count, failMsg) ==
  IF dbError THEN Thrown(failMsg) ELSE Listed(rows, count)

\* one list query: build the range, run the query once, map the error
RunList(op, table, args, filters, page, limit, failMsg) ==
  LET start == RangeStart(page, limit)
      end == RangeEnd(start, limit)
      match == Matching(table, filters)
  IN \E dbError \in BOOLEAN :
       \E order \in (IF dbError THEN {<<>>} ELSE Orders(table, match)) :
         /\ call' = [op |-> op, args |-> args, filters |-> filters, start |-> start,
                     end |-> end, order |-> order, trips |-> 1, dbError |-> dbError]
         /\ result' = ListOutcome(dbError, Range(order, start, end), Cardinality(match),
                                  failMsg)
         /\ UNCHANGED <<users, posts, reports, now, inflight, applyLog>>

\* mutant: the tier filter is left out
UsersFiltersNoTier(search, role, tier) ==
  (IF TruthySearch(search) THEN <<OrIlike(search)>> ELSE <<>>)
  \o (IF TruthyString(role) THEN <<Eq("role", role)>> ELSE <<>>)

UsersFilters(search, role, tier) ==
  (IF TruthySearch(search) THEN <<OrIlike(search)>> ELSE <<>>)
  \o (IF TruthyString(role) THEN <<Eq("role", role)>> ELSE <<>>)
  \o (IF TruthyString(tier) THEN <<Eq("tier", tier)>> ELSE <<>>)

GetUsersForAdmin ==
  \E page \in PageArgs, limit \in LimitArgs, search \in SearchArgs,
     role \in RoleArgs, tier \in TierArgs :
    RunList("getUsers", users,
            [page |-> page, limit |-> limit, search |-> search, role |-> role, tier |-> tier],
            UsersFilters(search, role, tier),
            OrDefault(page, DefaultPage), OrDefault(limit, DefaultLimit),
            "Failed to fetch users")

GetPostsForAdmin ==
  \E page \in PageArgs, limit \in LimitArgs :
    RunList("getPosts", posts, [page |-> page, limit |-> limit], <<InnerUsers>>,
            OrDefault(page, DefaultPage), OrDefault(limit, DefaultLimit),
            "Failed to fetch posts")

ReportsFilters(status) == IF TruthyString(status) THEN <<Eq("status", status)>> ELSE <<>>

GetReportsForAdmin ==
  \E page \in PageArgs, limit \in LimitArgs, status \in StatusArgs :
    RunList("getReports", reports, [page |-> page, limit |-> limit, status |-> status],
            ReportsFilters(status),
            OrDefault(page, DefaultPage), OrDefault(limit, DefaultLimit),
            "Failed to fetch reports")

(* ------------------------------- updates ------------------------------- *)
IsTerminal(status) == status \in {"resolved", "dismissed"}

\* mutant: the resolver is recorded only with a terminal status
UpdateDataResolverOnTerminal(status, adminId, t) ==
  [status |-> status, resolver_admin_id |-> IF IsTerminal(status) THEN adminId ELSE Null,
   resolved_at |-> IF IsTerminal(status) THEN t ELSE Null]

\* mutant: "dismissed" is not taken as terminal
UpdateDataResolvedOnly(status, adminId, t) ==
  [status |-> status, resolver_admin_id |-> adminId,
   resolved_at |-> IF status = "resolved" THEN t ELSE Null]

UpdateData(status, adminId, t) ==
  [status |-> status, resolver_admin_id |-> adminId,
   resolved_at |-> IF IsTerminal(status) THEN t ELSE Null]

\* mutant: an optimistic check, the update skipped once the report has a resolver
ApplyUpdateIfUnclaimed(table, reportId, data) ==
  [r \in DOMAIN table |->
     IF r = reportId /\ table[r].resolver_admin_id = Null
     THEN [f \in DOMAIN table[r] |-> IF f \in DOMAIN data THEN data[f] ELSE table[r][f]]
     ELSE table[r]]

\* mutant: the update without its id filter
ApplyUpdateAllRows(table, reportId, data) ==
  [r \in DOMAIN table |->
     [f \in DOMAIN table[r] |-> IF f \in DOMAIN data THEN data[f] ELSE table[r][f]]]

\* mutant: an upsert, which inserts the row when no row has the id
ApplyUpsert(table, reportId, data) ==
  [r \in DOMAIN table \cup {reportId} |->
     IF r = reportId
     THEN [f \in DOMAIN NoRow |->
             IF f \in DOMAIN data THEN data[f]
             ELSE IF r \in DOMAIN table THEN table[r][f] ELSE Null]
     ELSE table[r]]

\* UPDATE reports SET <data> WHERE id = reportId, one statement
ApplyUpdate(table, reportId, data) ==
  [r \in DOMAIN table |->
     IF r = reportId
     THEN [f \in DOMAIN table[r] |-> IF f \in DOMAIN data THEN data[f] ELSE table[r][f]]
     ELSE table[r]]

\* if (error) throw new Error(`Failed to update report status: ...`); return {success: true}
UpdateOutcome(dbError) ==
  IF dbError THEN Thrown("Failed to update report status") ELSE Succeeded

\* the row the call is aimed at, as it was when the call was made
PriorRow(table, reportId) == IF reportId \in DOMAIN table THEN table[reportId] ELSE NoRow

UpdateReportStatusForAdmin ==
  \E reportId \in ReportIdArgs, status \in ReportStatuses, adminId \in AdminIds,
     dbError \in BOOLEAN :
    LET updateData == UpdateData(status, adminId, now) IN
      /\ reports' = IF dbError THEN reports ELSE ApplyUpdate(reports, reportId, updateData)
      /\ call' = [op |-> "updateReport",
                  args |-> [reportId |-> reportId, status |-> status, adminId |-> adminId],
                  prior |-> PriorRow(reports, reportId), at |-> now,
                  trips |-> 1, dbError |-> dbError]
      /\ result' = UpdateOutcome(dbError)
      /\ UNCHANGED <<users, posts, now, inflight, applyLog>>

\* mutant: the commented-out update, sent
UpdatedPosts(table, postId, status) ==
  [p \in DOMAIN table |-> IF p = postId THEN [table[p] EXCEPT !.status = status] ELSE table[p]]

\* what the stub does to the posts table: the update statement is commented out
StubbedPosts(table, postId, status) == table

\* no client is created and no statement is sent; dbError is the condition of
\* the database while the call runs
UpdatePostStatusForAdmin ==
  \E postId \in PostIdArgs, status \in PostStatuses, dbError \in BOOLEAN :
    /\ posts' = StubbedPosts(posts, postId, status)
    /\ call' = [op |-> "updatePost", args |-> [postId |-> postId, status |-> status],
                trips |-> 0, dbError |-> dbError]
    /\ result' = Succeeded
    /\ UNCHANGED <<users, reports, now, inflight, applyLog>>

\* the wall clock read by new Date() moves on between calls
Tick ==
  /\ now < MaxClock
  /\ now' = now + 1
  /\ UNCHANGED <<users, posts, reports, call, result, inflight, applyLog>>

(* ------------------------ one caller, call by call --------------------- *)
Callers == {"c1", "c2"}
Idle == [pc |-> "idle"]

\* no call is waiting for its caller
Ready == call = NoCall

\* the caller takes the value or the exception of the call it awaited
Settle ==
  /\ call # NoCall
  /\ call' = NoCall
  /\ result' = NoResult
  /\ UNCHANGED <<users, posts, reports, now, inflight, applyLog>>

FixedUsers == [id \in UserIds |-> UserRow(id, IF id = 1 THEN 2 ELSE 1)]
FixedPosts == [id \in PostIds |-> PostRow(id, 1)]
NewReports == [id \in ReportIds |-> ReportRow("pending", Null, Null, 1, 1)]

InitCalls ==
  /\ now = 1
  /\ call = NoCall
  /\ result = NoResult
  /\ inflight = [c \in Callers |-> Idle]
  /\ applyLog = <<>>

Init ==
  /\ users = FixedUsers
  /\ posts = FixedPosts
  /\ reports = NewReports
  /\ InitCalls

Next ==
  \/ Ready /\ GetUsersForAdmin
  \/ Ready /\ GetPostsForAdmin
  \/ Ready /\ GetReportsForAdmin
  \/ Ready /\ UpdateReportStatusForAdmin
  \/ Ready /\ UpdatePostStatusForAdmin
  \/ Tick
  \/ Settle

Spec == Init /\ [][Next]_vars

(* ------------------- the list queries over varied tables --------------- *)
\* a report row as updateReportStatusForAdmin leaves it
SettledReport(status, created) ==
  IF status = "pending" THEN ReportRow("pending", Null, Null, created, 1)
  ELSE ReportRow(status, 1, 1, created, 1)

ListInit ==
  /\ \E created \in [UserIds -> Stamps] :
       users = [id \in UserIds |-> UserRow(id, created[id])]
  /\ \E created \in [PostIds -> Stamps] :
       posts = [id \in PostIds |-> PostRow(id, created[id])]
  /\ \E status \in [ReportIds -> {"pending", "resolved"}] :
       reports = [id \in ReportIds |-> SettledReport(status[id], 1)]
  /\ InitCalls

ListNext ==
  \/ Ready /\ GetUsersForAdmin
  \/ Ready /\ GetPostsForAdmin
  \/ Ready /\ GetReportsForAdmin
  \/ Settle

ListSpec == ListInit /\ [][ListNext]_vars

\* list requests one after the other, as a client paging through a list sends them
PagingNext ==
  \/ GetUsersForAdmin
  \/ GetPostsForAdmin
  \/ GetReportsForAdmin

PagingSpec == Init /\ [][PagingNext]_vars

(* --------------------- concurrent report status updates ---------------- *)
\* a call of updateReportStatusForAdmin in three steps: the update is built
\* and sent, the database executes the statement, the awaiting call resumes
Sent(reportId, data) ==
  [pc |-> "sent", reportId |-> reportId, data |-> data, dbError |-> FALSE,
   outcome |-> NoResult]

Begin(c) ==
  /\ inflight[c].pc = "idle"
  /\ \E reportId \in ReportIdArgs, status \in ReportStatuses, adminId \in AdminIds :
       inflight' = [inflight EXCEPT ![c] = Sent(reportId, UpdateData(status, adminId, now))]
  /\ UNCHANGED <<users, posts, reports, now, call, result, applyLog>>

DbExecute(c) ==
  /\ inflight[c].pc = "sent"
  /\ \E dbError \in BOOLEAN :
       /\ reports' = IF dbError THEN reports
                     ELSE ApplyUpdate(reports, inflight[c].reportId, inflight[c].data)
       /\ inflight' = [inflight EXCEPT ![c].pc = "answered", ![c].dbError = dbError]
       /\ applyLog' = IF dbError THEN applyLog
                      ELSE Append(applyLog,
                                  [caller |-> c,
                                   others |-> {o \in Callers : inflight[o].pc = "sent"} \ {c}])
  /\ UNCHANGED <<users, posts, now, call, result>>

Resume(c) ==
  /\ inflight[c].pc = "answered"
  /\ inflight' = [inflight EXCEPT ![c].pc = "done",
                                  ![c].outcome = UpdateOutcome(inflight[c].dbError)]
  /\ UNCHANGED <<users, posts, reports, now, call, result, applyLog>>

ConcNext ==
  \/ \E c \in Callers : Begin(c)
  \/ \E c \in Callers : DbExecute(c)
  \/ \E c \in Callers : Resume(c)
  \/ Tick

ConcSpec == Init /\ [][ConcNext]_vars

(* ------------------------------- claims -------------------------------- *)
ListOps == {"getUsers", "getPosts", "getReports"}
UpdatedFields == {"status", "resolver_admin_id", "resolved_at"}

\* a call of updateReportStatusForAdmin has just returned {success: true}
UpdateReturned == call.op = "updateReport" /\ ~result.threw /\ result.success
TargetExists == call.args.reportId \in DOMAIN reports

\* the failure kind of a thrown error, by its message
FailureKind(msg) ==
  IF msg \in {"Failed to fetch users", "Failed to fetch posts", "Failed to fetch reports"}
  THEN "QueryFailure"
  ELSE IF msg = "Failed to update report status" THEN "UpdateFailure" ELSE "none"

\* C1: after a successful updateReportStatus on an existing report the row has
\* the given status, resolver_admin_id is the given adminId whatever the
\* status, and resolved_at is non-null exactly when the status is resolved or
\* dismissed.
C1_RowAfterUpdate ==
  (UpdateReturned /\ TargetExists) =>
    LET row == reports[call.args.reportId] IN
      /\ row.status = call.args.status
      /\ row.resolver_admin_id = call.args.adminId
      /\ (row.resolved_at # Null) <=> (call.args.status \in {"resolved", "dismissed"})

\* a resolved report put back to processing: resolved_at is cleared, the
\* resolver is still recorded
C1_Witness ==
  /\ UpdateReturned /\ TargetExists
  /\ call.args.status = "processing"
  /\ call.prior.resolved_at # Null
  /\ reports[call.args.reportId].resolved_at = Null
  /\ reports[call.args.reportId].resolver_admin_id = call.args.adminId

\* C2: no step creates or deletes a row or changes a user or a post; a report
\* row changes only in a step of updateReportStatus aimed at that row, and
\* only in status, resolver_admin_id and resolved_at.
C2_OnlyTargetRowChanges ==
  [][/\ users' = users
     /\ posts' = posts
     /\ DOMAIN reports' = DOMAIN reports
     /\ \A r \in DOMAIN reports :
          reports'[r] # reports[r] =>
            /\ call'.op = "updateReport"
            /\ call'.args.reportId = r
            /\ \A f \in (DOMAIN reports[r]) \ UpdatedFields : reports'[r][f] = reports[r][f]
    ]_vars

\* an update changed its row while another report exists
C2_Witness ==
  /\ UpdateReturned /\ TargetExists
  /\ reports[call.args.reportId] # call.prior
  /\ \E r \in DOMAIN reports : r # call.args.reportId

\* C3 as stated: whenever the database fails during a call, the call throws
\* its failure kind after one round trip, for all five functions.
C3_EveryFunctionThrows ==
  (call.op # "none" /\ call.dbError) =>
    /\ result.threw /\ ~result.success
    /\ call.trips = 1
    /\ FailureKind(result.message) =
         (IF call.op \in ListOps THEN "QueryFailure" ELSE "UpdateFailure")

\* C3 (amended): the four functions that query the database make exactly one
\* round trip and, when it fails, throw their failure kind with no rows, count
\* or success; updatePostStatus makes no round trip and returns success.
C3_QueryingFunctionsThrow ==
  /\ (call.op \in ListOps \cup {"updateReport"}) =>
       /\ call.trips = 1
       /\ call.dbError =>
            /\ result.threw /\ ~result.success
            /\ result.rows = <<>> /\ result.count = 0
            /\ FailureKind(result.message) =
                 (IF call.op \in ListOps THEN "QueryFailure" ELSE "UpdateFailure")
  /\ (call.op = "updatePost") =>
       /\ call.trips = 0
       /\ ~result.threw /\ result.success

\* a list query failed and threw
C3_Witness ==
  /\ call.op = "getUsers"
  /\ call.dbError
  /\ result.threw
  /\ FailureKind(result.message) = "QueryFailure"

\* C4: updateReportStatus with an id of no report returns {success: true},
\* the result of a real update, and changes no table.
C4_MissingReportSucceeds ==
  [][(/\ call'.op = "updateReport"
      /\ call' # call
      /\ call'.args.reportId \notin DOMAIN reports
      /\ ~call'.dbError)
     => /\ result' = [threw |-> FALSE, message |-> "", rows |-> <<>>, count |-> 0,
                      success |-> TRUE]
        /\ UNCHANGED <<users, posts, reports>>
    ]_vars

C4_Witness ==
  /\ UpdateReturned
  /\ ~TargetExists
  /\ call.prior = NoRow

\* C5: updatePostStatus returns {success: true} for every postId and status,
\* and leaves every post and every other table as it was.
C5_StubChangesNothing ==
  [][(call'.op = "updatePost" /\ call' # call)
     => /\ result' = [threw |-> FALSE, message |-> "", rows |-> <<>>, count |-> 0,
                      success |-> TRUE]
        /\ UNCHANGED <<users, posts, reports>>
    ]_vars

\* the stub was asked to reject an existing pending post
C5_Witness ==
  /\ call.op = "updatePost"
  /\ call.args.postId \in DOMAIN posts
  /\ call.args.status = "rejected"
  /\ posts[call.args.postId].status = "pending"
  /\ result.success

\* the table a list function reads
TableOf(op) == IF op = "getUsers" THEN users ELSE IF op = "getPosts" THEN posts ELSE reports

RowSet(res) == {res.rows[i] : i \in 1..Len(res.rows)}

\* C6: a list call with page >= 1 and limit >= 1 asks for the rows
\* (page-1)*limit .. (page-1)*limit+limit-1 of the matching rows in descending
\* order of created_at, and returns exactly those of them that exist: at most
\* limit rows.
C6_PageIsSlice ==
  (call.op \in ListOps /\ ~result.threw) =>
    LET page == IF call.args.page = Undefined THEN 1 ELSE call.args.page
        limit == IF call.args.limit = Undefined THEN 10 ELSE call.args.limit
        lo == (page - 1) * limit
        hi == lo + limit - 1
        table == TableOf(call.op)
        sorted == call.order
        n == IF Len(sorted) <= lo THEN 0 ELSE Min(Len(sorted), hi + 1) - lo
    IN /\ call.start = lo /\ call.end = hi
       /\ {sorted[i] : i \in 1..Len(sorted)} = Matching(table, call.filters)
       /\ Len(sorted) = Cardinality(Matching(table, call.filters))
       /\ \A i \in 1..(Len(sorted) - 1) :
            table[sorted[i]].created_at >= table[sorted[i + 1]].created_at
       /\ Len(result.rows) = n
       /\ n <= limit
       /\ \A i \in 1..n : result.rows[i] = sorted[lo + i]

\* a second page of three users by two: rows 2..3 asked for, one row returned
C6_Witness ==
  /\ call.op = "getUsers" /\ ~result.threw
  /\ call.args.page = 2 /\ call.args.limit = 2
  /\ call.start = 2 /\ call.end = 3
  /\ Len(result.rows) = 1
  /\ Len(call.order) = 3

\* C7 as stated: two successive requests of one list function with the same
\* filter and limit and different pages return the same count, the number of
\* matching rows, and no row in common.
C7_SameCountDisjointPages ==
  [][(/\ call.op \in ListOps
      /\ call'.op = call.op
      /\ ~result.threw /\ ~result'.threw
      /\ [call.args EXCEPT !.page = 1] = [call'.args EXCEPT !.page = 1]
      /\ OrDefault(call.args.page, DefaultPage) # OrDefault(call'.args.page, DefaultPage))
     => /\ result'.count = result.count
        /\ result.count = Cardinality(Matching(TableOf(call.op), call.filters))
        /\ RowSet(result) \cap RowSet(result') = {}
    ]_vars

\* s contains sub, letters compared regardless of case
Contains(s, sub) ==
  \E k \in 0..(Len(s) - Len(sub)) :
    \A j \in 1..Len(sub) : Lower(s[k + j]) = Lower(sub[j])

\* the users a listUsers request with these arguments is to select
Selected(args, u) ==
  /\ (args.search # NoSearch /\ args.search # <<>>) =>
       (Contains(u.nickname, args.search) \/ Contains(u.email, args.search))
  /\ (args.role # NoString) => u.role = args.role
  /\ (args.tier # NoString) => u.tier = args.tier

BothDone(c, d) ==
  /\ c # d
  /\ inflight[c].pc = "done" /\ inflight[d].pc = "done"
  /\ ~inflight[c].dbError /\ ~inflight[d].dbError
  /\ inflight[c].reportId = inflight[d].reportId
  /\ inflight[c].reportId \in DOMAIN reports

RowFields(row) == [f \in UpdatedFields |-> row[f]]

\* C9: when two concurrent calls on one report have both returned, both
\* returned success and the row holds the status, resolver and resolved_at of
\* the call whose statement ran last: the fields of one call, so resolved_at
\* is non-null exactly when the final status is terminal.
C9_LastWriteWins ==
  \A c, d \in Callers :
    BothDone(c, d) =>
      LET row == reports[inflight[c].reportId]
          last == applyLog[Len(applyLog)].caller
      IN /\ inflight[c].outcome.success /\ ~inflight[c].outcome.threw
         /\ inflight[d].outcome.success /\ ~inflight[d].outcome.threw
         /\ Len(applyLog) = 2
         /\ RowFields(row) = inflight[last].data
         /\ (row.resolved_at # Null) <=> IsTerminal(row.status)

\* the first statement ran while the second call was in flight, and the two
\* calls wrote different statuses, one of them terminal
C9_Witness ==
  \E c, d \in Callers :
    /\ BothDone(c, d)
    /\ applyLog[1].caller = c /\ applyLog[1].others = {d}
    /\ applyLog[2].caller = d
    /\ inflight[c].data.status = "resolved"
    /\ inflight[d].data.status = "processing"
    /\ inflight[c].data.resolver_admin_id # inflight[d].data.resolver_admin_id
    /\ reports[inflight[c].reportId].resolved_at = Null

\* a call that wrote the row of an existing report
Wrote(r) ==
  /\ call'.op = "updateReport"
  /\ call' # call
  /\ ~result'.threw
  /\ call'.args.reportId = r

\* C10 as stated: resolved_at gets a new timestamp only in a call that takes
\* the report from a non-terminal status to a terminal one.
C10_SetOnlyOnTransition ==
  [][\A r \in DOMAIN reports :
       (/\ Wrote(r)
        /\ reports'[r].resolved_at # Null
        /\ reports'[r].resolved_at # reports[r].resolved_at)
       => (~IsTerminal(reports[r].status) /\ IsTerminal(reports'[r].status))
    ]_vars

\* C10 (amended): every call whose new status is resolved or dismissed sets
\* resolved_at to the time of the call, whatever the status was before, and
\* every other call clears it.
C10_SetByEveryTerminalCall ==
  [][\A r \in DOMAIN reports :
       Wrote(r) =>
         reports'[r].resolved_at = (IF IsTerminal(call'.args.status) THEN now ELSE Null)
    ]_vars

\* an already resolved report is dismissed later and gets a later resolved_at
C10_Witness ==
  /\ UpdateReturned /\ TargetExists
  /\ IsTerminal(call.prior.status)
  /\ IsTerminal(call.args.status)
  /\ call.prior.resolved_at # Null
  /\ reports[call.args.reportId].resolved_at > call.prior.resolved_at

====
